---- MODULE Spec2Model ----
(***************************************************************************)
(* Routing and failover engine of the Praximous gateway.                   *)
(*                                                                         *)
(*   core/provider_manager.py  BaseLLMProvider, GeminiProvider,            *)
(*                             OllamaProvider, ProviderManager             *)
(*   core/model_router.py      ModelRouter                                 *)
(*   core/system_context.py    SystemContext.get_system_prompt             *)
(*                                                                         *)
(* One call of the router is in progress at a time; its position is pc.    *)
(* A provider call is an asynchronous step: it is started by one action    *)
(* and its outcome (a response, a chunk, the end of the stream, an         *)
(* exception) is delivered by another, chosen by the backend.              *)
(***************************************************************************)
EXTENDS Integers, Sequences, FiniteSets, TLC

(* ------------------------------ bounds -------------------------------- *)

\* longest provider list of a routing entry
MaxSeq == 2

\* most chunks a backend stream produces before it ends or fails
MaxChunks == 2

(* ------------------------- provider configuration ---------------------- *)

NoProvider == [name |-> "None"]

\* the reserved key of the routing table
DEFAULT == "__default__"

\* ProviderManager.PROVIDER_CLASSES: the kinds the registry can construct.
\* "gemini" and "ollama" are the built-in classes; "plugin" stands for any
\* further subclass of BaseLLMProvider, which keeps the defaults of the base
\* class unless its configuration entry says otherwise and whose generation
\* methods let a backend error propagate to the caller.
PROVIDER_CLASSES == {"gemini", "ollama", "plugin"}

\* the names the entries of config/providers.yaml carry, in file order
EntryNames == <<"gemini-primary", "ollama-failover", "plugin-local">>

\* a name a routing list may mention although no configuration entry has it
GhostName == "ghost"

RouteNames == {EntryNames[i] : i \in 1..Len(EntryNames)} \cup {GhostName}

\* the exceptions a backend call raises (all of them subclasses of Exception)
ExcKinds == {"HTTPError", "ValueError"}

\* the task types a caller asks for
TaskTypes == {"summarize", "translate"}

\* the user prompt; decoration wraps it, wraps counts the layers
UserPrompt == [user |-> "hello", wraps |-> 0]

VARIABLES
    providers_yaml,    \* config/providers.yaml: the sequence of entries
    routing_yaml,      \* config/routing.yaml: what reading it gives
    env,               \* the names whose credential variable is set
    providers,         \* ProviderManager.providers, in insertion order
    routing_rules,     \* ModelRouter.routing_rules
    routable_tasks,    \* ModelRouter.routable_tasks
    identity_complete, \* SystemContext: system_name, business_name, industry set
    pc,                \* position of the call in progress
    mode,              \* "route" | "stream" | "health" | "none"
    task_type,         \* argument of the call
    providers_to_try,  \* local of route_request / route_request_stream
    idx,               \* position of the for loop in providers_to_try
    errors,            \* local list of failure reasons
    full_prompt,       \* local: the decorated prompt of the current attempt
    outcome,           \* what the caller of the call observed at its end
    emitted,           \* chunks yielded to the caller of route_request_stream
    calls,             \* history: provider calls started by this call
    hook_calls,        \* history: get_system_prompt calls made by this call
    hpc,               \* position of get_provider_statuses
    enabled_providers, \* local of get_provider_statuses
    disabled_providers,\* local of get_provider_statuses
    results,           \* the outcomes asyncio.gather collects, by position
    statuses,          \* the value get_provider_statuses returned
    probe_calls,       \* history: the providers check_health was invoked on
    boot,              \* module import: "start", "providers", "up", "crashed"
    spc,               \* position of the request handler of api/server.py
    request,           \* the request being handled: endpoint, key, task type
    http_status,       \* status code of the HTTP response (0: none yet)
    skill_started,     \* the handler has called execute on a skill
    ws_sent,           \* messages sent on the WebSocket by send_json
    connected,         \* the WebSocket is accepted and the client is there
    close_code,        \* code of websocket.close (0: not closed by the server)
    http_detail,       \* detail of the HTTPException the handler raised
    audit,             \* history: the log_interaction calls of the request
    PADDLE_WEBHOOK_SIGNING_SECRET, \* what os.getenv gave at import
    webhook            \* the purchase_completed request being handled

cfgVars == <<providers_yaml, routing_yaml, env, providers, routing_rules,
             routable_tasks, identity_complete, boot>>
\* cfgVars without the routing table
cfgRest == <<providers_yaml, routing_yaml, env, providers, routable_tasks,
             identity_complete, boot>>
reqVars == <<pc, mode, task_type, providers_to_try, idx, errors, full_prompt,
             outcome, emitted, calls, hook_calls>>
vars == <<providers_yaml, routing_yaml, env, providers, routing_rules,
          routable_tasks, identity_complete, pc, mode, task_type, providers_to_try, idx,
          errors, full_prompt, outcome, emitted, calls, hook_calls, hpc,
          enabled_providers, disabled_providers, results, statuses,
          probe_calls, boot, spc, request, http_status, skill_started,
          ws_sent, connected, close_code, http_detail, audit,
          PADDLE_WEBHOOK_SIGNING_SECRET, webhook>>
healthVars == <<hpc, enabled_providers, disabled_providers, results, statuses,
                probe_calls>>
whVars == <<PADDLE_WEBHOOK_SIGNING_SECRET, webhook>>
srvVars == <<spc, request, http_status, skill_started, ws_sent, connected,
             close_code, http_detail, audit, whVars>>

(* ------------------------------ helpers ------------------------------- *)

Range(s) == {s[i] : i \in 1..Len(s)}

SeqsUpTo(S, n) == UNION {[1..k -> S] : k \in 0..n}

\* BaseLLMProvider.enabled
enabled(p) == p.enabled

\* BaseLLMProvider.supports_streaming, overridden by the built-in classes
supports_streaming(p) ==
    IF p.type \in {"gemini", "ollama"} THEN TRUE ELSE p.streams

\* ProviderManager.get_provider: dict lookup, None when absent
get_provider(name) ==
    IF \E i \in 1..Len(providers) : providers[i].name = name
    THEN providers[CHOOSE i \in 1..Len(providers) : providers[i].name = name]
    ELSE NoProvider

(* --------------------- ProviderManager._load_providers ----------------- *)

\* self.providers[name] = instance: a dict keeps the position of a key it
\* already holds and appends a new one
DictPut(d, p) ==
    IF \E i \in 1..Len(d) : d[i].name = p.name
    THEN [i \in 1..Len(d) |-> IF d[i].name = p.name THEN p ELSE d[i]]
    ELSE Append(d, p)

\* the constructor of a provider class raises when its credential / endpoint
\* environment variable is not set (GeminiProvider, OllamaProvider __init__)
Constructs(entry, environment) == entry.name \in environment

\* one iteration of the loop over config['providers']
LoadEntry(d, entry, environment) ==
    IF entry.enabled
    THEN IF entry.type \in PROVIDER_CLASSES
         THEN IF Constructs(entry, environment) THEN DictPut(d, entry) ELSE d
         ELSE d
    ELSE d

\* variant: the first constructor that raises ends the loop
RECURSIVE LoadFromUntilFailure(_, _, _, _)
LoadFromUntilFailure(d, entries, i, environment) ==
    IF i > Len(entries) THEN d
    ELSE IF /\ entries[i].enabled
            /\ entries[i].type \in PROVIDER_CLASSES
            /\ ~Constructs(entries[i], environment)
         THEN d
         ELSE LoadFromUntilFailure(LoadEntry(d, entries[i], environment),
                                   entries, i + 1, environment)

RECURSIVE LoadFrom(_, _, _, _)
LoadFrom(d, entries, i, environment) ==
    IF i > Len(entries) THEN d
    ELSE LoadFrom(LoadEntry(d, entries[i], environment), entries, i + 1,
                  environment)

_load_providers(entries, environment) == LoadFrom(<<>>, entries, 1, environment)

(* --------------------- ModelRouter._load_routing_rules ----------------- *)

DefaultRules == (DEFAULT :> <<"gemini-primary", "ollama-failover">>)

\* file.kind: "missing" (FileNotFoundError), "invalid" (yaml error),
\* "empty" (safe_load gives None), "nokey" (no routing_rules key): the
\* fallback table.  With a routing_rules key its value is taken as it is:
\* "rules" (a mapping of task type to list), "scalar" (a mapping whose value
\* is a string, held as its characters, which is what iterating it gives),
\* "list" (the value is a list, not a mapping)
_load_routing_rules(file) ==
    IF file.kind \in {"rules", "scalar", "list"} THEN file.rules
    ELSE DefaultRules

\* the loaded value has the keys() method __init__ calls (line 25)
HasKeys(file) == file.kind # "list"

\* ModelRouter.__init__: the keys of the table without the reserved one
\* variant: the reserved key is not discarded
RoutableTasksKeepDefault(rules) == DOMAIN rules

RoutableTasks(rules) == (DOMAIN rules) \ {DEFAULT}

(* ------------------- SystemContext.get_system_prompt ------------------- *)

\* prepends the persona text when the identity is complete, else returns the
\* prompt as it is
get_system_prompt(user_prompt) ==
    IF identity_complete
    THEN [user_prompt EXCEPT !.wraps = @ + 1]
    ELSE user_prompt

(* --------------------------- ModelRouter ------------------------------- *)

None == [some |-> FALSE, seq |-> <<>>]
Some(s) == [some |-> TRUE, seq |-> s]

\* dict.get(key): None when the key is absent
RulesGet(key) ==
    IF key \in DOMAIN routing_rules THEN Some(routing_rules[key]) ELSE None

\* variant: the lookup is made with setdefault, which stores the fallback
\* under the key it did not find
RulesAfterSetDefault(task) ==
    IF task \notin DOMAIN routing_rules /\ DEFAULT \in DOMAIN routing_rules
    THEN [k \in DOMAIN routing_rules \cup {task} |->
             IF k = task THEN routing_rules[DEFAULT] ELSE routing_rules[k]]
    ELSE routing_rules

\* the routing table after self.routing_rules.get(task_type, ...): dict.get
\* stores nothing
RulesAfterLookup(task) == routing_rules

\* variant: no fallback to the reserved entry
provider_sequence_explicit_only(task) ==
    IF task \in DOMAIN routing_rules THEN Some(routing_rules[task]) ELSE None

\* self.routing_rules.get(task_type, self.routing_rules.get("__default__"))
provider_sequence(task) ==
    IF task \in DOMAIN routing_rules THEN Some(routing_rules[task])
    ELSE RulesGet(DEFAULT)

\* variant: only None counts ("is None")
FalsyNoneOnly(opt) == ~opt.some

\* "not provider_sequence": None or an empty list
Falsy(opt) == ~opt.some \/ opt.seq = <<>>

\* variant: the names are not checked against the registry
IsCandidateAnyName(name) == TRUE

IsCandidate(name) ==
    get_provider(name) # NoProvider /\ enabled(get_provider(name))

IsStreamCandidate(name) ==
    /\ get_provider(name) # NoProvider
    /\ enabled(get_provider(name))
    /\ supports_streaming(get_provider(name))

\* variant: the candidates re-sorted on the providers' priority field
CandidatesByPriority(seq) ==
    SortSeq(SelectSeq(seq, IsCandidate),
            LAMBDA a, b : get_provider(a).priority < get_provider(b).priority)

\* variant: the comprehension stops at the first name the registry lacks
CandidatesUntilMissing(seq) ==
    LET missing == {i \in 1..Len(seq) : get_provider(seq[i]) = NoProvider}
        stop == IF missing = {} THEN Len(seq) + 1
                ELSE CHOOSE i \in missing : \A j \in missing : i <= j
    IN SelectSeq(SubSeq(seq, 1, stop - 1), IsCandidate)

\* the list comprehension of route_request: order of the routing list kept
CandidatesOf(seq) == SelectSeq(seq, IsCandidate)

\* variant: the streaming capability is not looked at
StreamCandidatesAnyProvider(seq) == SelectSeq(seq, IsCandidate)

\* the list comprehension of route_request_stream
StreamCandidatesOf(seq) == SelectSeq(seq, IsStreamCandidate)

Outcome(kind, detail, reasons, provider) ==
    [kind |-> kind, detail |-> detail, reasons |-> reasons,
     provider |-> provider]

NoOutcome == Outcome("none", "", <<>>, "")

\* variant: only transport errors are caught
IsCaughtTransportOnly(exc) == exc = "HTTPError"

\* except Exception: every exception a backend raises is caught
IsCaught(exc) == exc \in ExcKinds

\* variant: the list is overwritten with the latest reason
RecordLastError(errs, name, exc) == <<[name |-> name, exc |-> exc]>>

\* errors.append(f"{provider.name}: {e}")
RecordError(errs, name, exc) == Append(errs, [name |-> name, exc |-> exc])

\* variant: the result of the previous attempt is decorated again
FullPromptRewrapped == get_system_prompt(full_prompt)

\* full_prompt = get_system_context().get_system_prompt(prompt)
FullPrompt == get_system_prompt(UserPrompt)

\* variant: the next iteration starts while a call is still awaited
LoopReadyNoAwait == pc \in {"loop", "await", "stream"}

\* the for loop is ready for its next iteration: the previous attempt, if
\* any, has been awaited to its end
LoopReady == pc = "loop"

\* backend: the provider value of the response the backend returned ("" when
\* it has none); yielded: the elements the provider's stream produced, as the
\* provider holds them
Call(name, prompt, result) ==
    [provider |-> name, prompt |-> prompt, result |-> result, exc |-> "",
     chunks |-> 0, emitted_before |-> Len(emitted), backend |-> "",
     yielded |-> <<>>]

\* the responses generate_async returns: the built-in classes put their own
\* name in the provider field (provider_manager.py 101, 195); another class
\* may put any value there or none
BackendResponses(p) ==
    IF p.type \in {"gemini", "ollama"}
    THEN {[provider |-> p.name, text |-> "text"]}
    ELSE {[provider |-> "backend-model", text |-> "text"],
          [provider |-> "", text |-> "text"]}

\* variant: the name is written only when the response has no provider value
AnnotateResponseIfAbsent(response, name) ==
    IF response.provider = "" THEN [response EXCEPT !.provider = name]
    ELSE response

\* response['provider'] = provider.name
AnnotateResponse(response, name) == [response EXCEPT !.provider = name]

\* route_request up to the for loop (lines 56-67)
route_request(task) ==
    /\ pc \in {"idle", "done"}
    /\ mode' = "route"
    /\ task_type' = task
    /\ calls' = <<>>
    /\ hook_calls' = 0
    /\ emitted' = <<>>
    /\ errors' = <<>>
    /\ idx' = 1
    /\ full_prompt' = UserPrompt
    /\ LET ps == provider_sequence(task) IN
       IF Falsy(ps)
       THEN /\ outcome' = Outcome("ValueError", "not routable", <<>>, "")
            /\ providers_to_try' = <<>>
            /\ pc' = "done"
       ELSE /\ providers_to_try' = CandidatesOf(ps.seq)
            /\ IF CandidatesOf(ps.seq) = <<>>
               THEN /\ outcome' = Outcome("NoAvailableProviderError",
                                          "none enabled", <<>>, "")
                    /\ pc' = "done"
               ELSE /\ outcome' = NoOutcome
                    /\ pc' = "loop"
    /\ routing_rules' = RulesAfterLookup(task)
    /\ UNCHANGED <<cfgRest, healthVars>>

\* one iteration of the for loop up to the await (lines 68-73)
route_attempt ==
    /\ mode = "route"
    /\ LoopReady
    /\ idx <= Len(providers_to_try)
    /\ full_prompt' = FullPrompt
    /\ hook_calls' = hook_calls + 1
    /\ calls' = Append(calls, Call(providers_to_try[idx], FullPrompt,
                                   "pending"))
    /\ pc' = "await"
    /\ UNCHANGED <<mode, task_type, providers_to_try, idx, errors, outcome,
                   emitted>>
    /\ UNCHANGED <<cfgVars, healthVars, srvVars>>

\* generate_async returns: the response is annotated and returned (73-77)
generate_async_returns(response) ==
    /\ mode = "route"
    /\ pc = "await"
    /\ response \in BackendResponses(get_provider(providers_to_try[idx]))
    /\ calls' = [calls EXCEPT ![Len(calls)].result = "ok",
                              ![Len(calls)].backend = response.provider]
    /\ outcome' = Outcome("response", "", <<>>,
                          AnnotateResponse(response,
                                           providers_to_try[idx]).provider)
    /\ pc' = "done"
    /\ UNCHANGED <<mode, task_type, providers_to_try, idx, errors,
                   full_prompt, emitted, hook_calls>>
    /\ UNCHANGED <<cfgVars, healthVars, srvVars>>

\* generate_async raises: the reason is recorded and the loop goes on; after
\* the last candidate the aggregate error is raised (79-85)
generate_async_raises(exc) ==
    /\ mode = "route"
    /\ pc = "await"
    /\ calls' = [calls EXCEPT ![Len(calls)].result = "raised",
                              ![Len(calls)].exc = exc]
    /\ IF IsCaught(exc)
       THEN LET errs == RecordError(errors, providers_to_try[idx], exc) IN
            /\ errors' = errs
            /\ idx' = idx + 1
            /\ IF idx + 1 > Len(providers_to_try)
               THEN /\ outcome' = Outcome("NoAvailableProviderError",
                                          "all failed", errs, "")
                    /\ pc' = "done"
               ELSE /\ outcome' = outcome
                    /\ pc' = "loop"
       ELSE /\ outcome' = Outcome(exc, "raw", <<>>, providers_to_try[idx])
            /\ pc' = "done"
            /\ UNCHANGED <<errors, idx>>
    /\ UNCHANGED <<mode, task_type, providers_to_try, full_prompt, emitted,
                   hook_calls>>
    /\ UNCHANGED <<cfgVars, healthVars, srvVars>>


(* ----------------------- route_request_stream -------------------------- *)

\* the built-in generate_stream_async catches every backend exception and
\* yields an error element instead (provider_manager.py 115-120, 223-225);
\* a provider class without that handler lets the exception reach the router
\* variant: no provider class has the handler
StreamRaisesAlways(p) == TRUE

StreamRaises(p) == p.type \notin {"gemini", "ollama"}

\* an element a provider's stream yields: {"type": ..., "token" / "detail"};
\* it has no provider key (provider "" here); token numbers the chunks of one
\* stream, the error element has token 0
Chunk(chunk_type, token) ==
    [type |-> chunk_type, token |-> token, provider |-> ""]

\* chunk_with_provider['provider'] = provider.name
Annotate(chunk, name) == [chunk EXCEPT !.provider = name]

\* variant: the provider's own object is annotated and yielded
ReemitInPlace(chunk, name) ==
    [kept |-> Annotate(chunk, name), sent |-> Annotate(chunk, name)]

\* chunk_with_provider = chunk.copy(); ...; yield chunk_with_provider:
\* kept is the provider's object after the step, sent the element yielded
Reemit(chunk, name) == [kept |-> chunk, sent |-> Annotate(chunk, name)]

\* route_request_stream up to the for loop (lines 96-107)
route_request_stream(task) ==
    /\ pc \in {"idle", "done"}
    /\ mode' = "stream"
    /\ task_type' = task
    /\ calls' = <<>>
    /\ hook_calls' = 0
    /\ emitted' = <<>>
    /\ errors' = <<>>
    /\ idx' = 1
    /\ full_prompt' = UserPrompt
    /\ LET ps == provider_sequence(task) IN
       IF Falsy(ps)
       THEN /\ outcome' = Outcome("ValueError", "not routable", <<>>, "")
            /\ providers_to_try' = <<>>
            /\ pc' = "done"
       ELSE /\ providers_to_try' = StreamCandidatesOf(ps.seq)
            /\ IF StreamCandidatesOf(ps.seq) = <<>>
               THEN /\ outcome' = Outcome("NoAvailableProviderError",
                                          "none streaming", <<>>, "")
                    /\ pc' = "done"
               ELSE /\ outcome' = NoOutcome
                    /\ pc' = "loop"
    /\ routing_rules' = RulesAfterLookup(task)
    /\ UNCHANGED <<cfgRest, healthVars>>

\* one iteration of the for loop up to the first __anext__ (lines 108-114)
stream_attempt ==
    /\ mode = "stream"
    /\ LoopReady
    /\ idx <= Len(providers_to_try)
    /\ full_prompt' = FullPrompt
    /\ hook_calls' = hook_calls + 1
    /\ calls' = Append(calls, Call(providers_to_try[idx], FullPrompt,
                                   "pending"))
    /\ pc' = "stream"
    /\ UNCHANGED <<mode, task_type, providers_to_try, idx, errors, outcome,
                   emitted>>
    /\ UNCHANGED <<cfgVars, healthVars, srvVars>>

\* the provider yields a chunk and the router re-emits it (lines 114-118)
stream_chunk ==
    /\ mode = "stream"
    /\ pc = "stream"
    /\ calls[Len(calls)].chunks < MaxChunks
    /\ LET chunk == Chunk("stream_chunk", calls[Len(calls)].chunks + 1)
           r == Reemit(chunk, providers_to_try[idx])
       IN /\ calls' = [calls EXCEPT ![Len(calls)].chunks = @ + 1,
                                    ![Len(calls)].yielded = Append(@, r.kept)]
          /\ emitted' = Append(emitted, r.sent)
    /\ UNCHANGED <<pc, mode, task_type, providers_to_try, idx, errors,
                   full_prompt, outcome, hook_calls>>
    /\ UNCHANGED <<cfgVars, healthVars, srvVars>>

\* variant: a sequence that yielded nothing is taken for a failure
ReturnsAfterStreamWithChunks(n) == n > 0

\* the return that follows the async for (line 121) does not look at what
\* the sequence yielded
ReturnsAfterStream(n) == TRUE

\* the provider's sequence ends: the router returns (lines 120-121)
stream_ends ==
    /\ mode = "stream"
    /\ pc = "stream"
    /\ calls' = [calls EXCEPT ![Len(calls)].result = "ended"]
    /\ IF ReturnsAfterStream(calls[Len(calls)].chunks)
       THEN /\ outcome' = Outcome("returned", "", <<>>, providers_to_try[idx])
            /\ pc' = "done"
            /\ idx' = idx
       ELSE /\ idx' = idx + 1
            /\ IF idx + 1 > Len(providers_to_try)
               THEN /\ outcome' = Outcome("NoAvailableProviderError",
                                          "all failed", errors, "")
                    /\ pc' = "done"
               ELSE /\ outcome' = outcome
                    /\ pc' = "loop"
    /\ UNCHANGED <<mode, task_type, providers_to_try, errors,
                   full_prompt, emitted, hook_calls>>
    /\ UNCHANGED <<cfgVars, healthVars, srvVars>>

\* the backend fails while the stream is open.  A built-in provider yields
\* one error element and ends, so the router re-emits it and returns; any
\* other provider raises, and the router records the reason and goes on
\* with the next candidate (lines 123-128)
stream_fails(exc) ==
    /\ mode = "stream"
    /\ pc = "stream"
    /\ IF ~StreamRaises(get_provider(providers_to_try[idx]))
       THEN LET r == Reemit(Chunk("error", 0), providers_to_try[idx]) IN
            /\ calls' = [calls EXCEPT ![Len(calls)].result = "inband",
                                      ![Len(calls)].exc = exc,
                                      ![Len(calls)].yielded =
                                          Append(@, r.kept)]
            /\ emitted' = Append(emitted, r.sent)
            /\ outcome' = Outcome("returned", "", <<>>, providers_to_try[idx])
            /\ pc' = "done"
            /\ UNCHANGED <<errors, idx>>
       ELSE /\ calls' = [calls EXCEPT ![Len(calls)].result = "raised",
                                      ![Len(calls)].exc = exc]
            /\ emitted' = emitted
            /\ IF IsCaught(exc)
               THEN LET errs == RecordError(errors, providers_to_try[idx], exc)
                    IN
                    /\ errors' = errs
                    /\ idx' = idx + 1
                    /\ IF idx + 1 > Len(providers_to_try)
                       THEN /\ outcome' = Outcome("NoAvailableProviderError",
                                                  "all failed", errs, "")
                            /\ pc' = "done"
                       ELSE /\ outcome' = outcome
                            /\ pc' = "loop"
               ELSE /\ outcome' = Outcome(exc, "raw", <<>>,
                                          providers_to_try[idx])
                    /\ pc' = "done"
                    /\ UNCHANGED <<errors, idx>>
    /\ UNCHANGED <<mode, task_type, providers_to_try, full_prompt, hook_calls>>
    /\ UNCHANGED <<cfgVars, healthVars, srvVars>>

(* -------------------- ModelRouter.get_provider_statuses ---------------- *)

\* cause: what happened at the backend of a built-in provider's probe
Pending == [kind |-> "pending", status |-> "", details |-> "", cause |-> ""]

\* a dict returned by check_health; status "absent": it has no status key
ProbeDict(status) ==
    [kind |-> "dict", status |-> status, details |-> "probe details",
     cause |-> ""]

\* an exception raised by check_health, with its message
ProbeRaises ==
    [kind |-> "exception", status |-> "", details |-> "boom", cause |-> ""]

\* a returned value that is no dict
ProbeNoDict == [kind |-> "other", status |-> "", details |-> "", cause |-> ""]

\* what the backend of a health probe does: it answers, or the request
\* raises httpx.ConnectError, httpx.TimeoutException, httpx.HTTPStatusError
\* (raise_for_status on a 4xx/5xx answer) or something else
HealthEvents ==
    {"ok", "ConnectError", "TimeoutException", "HTTPStatusError",
     "RuntimeError"}

\* except httpx.RequestError (line 241): the transport errors.
\* httpx.HTTPStatusError derives from httpx.HTTPError, not from RequestError
IsRequestError(event) == event \in {"ConnectError", "TimeoutException"}

\* OllamaProvider.check_health (228-247)
OllamaProvider_check_health(event) ==
    [ProbeDict(IF event = "ok" THEN "Active"
               ELSE IF IsRequestError(event) THEN "Offline"
               ELSE "Error")
        EXCEPT !.cause = event]

\* GeminiProvider.check_health (122-144): Active when the model is listed,
\* Error when it is not or when anything was raised
GeminiProvider_check_health(event) ==
    [ProbeDict(IF event = "ok" THEN "Active" ELSE "Error")
        EXCEPT !.cause = event]

\* what check_health of a provider can give back.  GeminiProvider returns
\* Active or Error, OllamaProvider Active, Offline or Error, and neither
\* raises; another provider class may return a dict with any status (one of
\* the aggregator's own or an unknown one) or with none ("absent"), a value
\* that is no dict, or raise
CheckHealthResults(p) ==
    CASE p.type = "gemini" ->
            {GeminiProvider_check_health(e) : e \in {"ok", "ConnectError"}}
      [] p.type = "ollama" ->
            {OllamaProvider_check_health(e) : e \in HealthEvents}
      [] OTHER ->
            {ProbeDict("Active"), ProbeDict("Degraded"), ProbeDict("Disabled"),
             ProbeDict("absent"), ProbeRaises, ProbeNoDict}

\* variant: an exception is not told apart from any other non-dict value
StatusRecordNoExceptionCase(p, result) ==
    [name |-> p.name,
     status |-> CASE result.kind = "dict" ->
                        IF result.status = "absent" THEN "Unknown"
                        ELSE result.status
                  [] OTHER -> "Unknown",
     details |-> CASE result.kind = "dict" -> <<result.details>>
                   [] OTHER -> <<"Health check did not return a valid status.">>]

\* the record built for an enabled provider from its probe result (152-169)
StatusRecord(p, result) ==
    [name |-> p.name,
     status |-> CASE result.kind = "exception" -> "Error"
                  [] result.kind = "dict" ->
                        IF result.status = "absent" THEN "Unknown"
                        ELSE result.status
                  [] OTHER -> "Unknown",
     details |-> CASE result.kind = "exception" ->
                        <<"Health check failed: ", result.details>>
                   [] result.kind = "dict" -> <<result.details>>
                   [] OTHER -> <<"Health check did not return a valid status.">>]

\* the record of a disabled provider (172-179)
DisabledRecord(p) ==
    [name |-> p.name, status |-> "Disabled",
     details |-> <<"Provider is disabled in configuration.">>]

CountStatus(recs, st) == Cardinality({i \in 1..Len(recs) : recs[i].status = st})

\* the returned value (181-189)
StatusesOf(en, dis, res) ==
    LET recs == [i \in 1..Len(en) |-> StatusRecord(en[i], res[i])]
                \o [i \in 1..Len(dis) |-> DisabledRecord(dis[i])]
    IN [returned |-> TRUE,
        summary |-> [total_providers |-> Len(providers),
                     enabled |-> Len(en),
                     disabled |-> Len(dis),
                     errors |-> CountStatus(recs, "Error")],
        providers |-> recs]

NoStatuses ==
    [returned |-> FALSE,
     summary |-> [total_providers |-> 0, enabled |-> 0, disabled |-> 0,
                  errors |-> 0],
     providers |-> <<>>]

IsEnabled(p) == enabled(p)
IsDisabled(p) == ~enabled(p)

\* variant: only the first probe is started before anything is awaited
ProbesStartedFirstOnly(en) == [i \in 1..(IF en = <<>> THEN 0 ELSE 1) |-> en[i].name]

\* health_check_tasks handed to asyncio.gather: one safe_check coroutine per
\* enabled provider, all of them started by gather (148-149)
ProbesStarted(en) == [i \in 1..Len(en) |-> en[i].name]

\* the call up to the await of asyncio.gather: the registry is partitioned
\* and one safe_check per enabled provider is started (134-149); without
\* an enabled provider nothing is awaited and the call returns at once
get_provider_statuses ==
    /\ hpc \in {"idle", "done"}
    /\ LET en == SelectSeq(providers, IsEnabled)
           dis == SelectSeq(providers, IsDisabled)
       IN /\ enabled_providers' = en
          /\ disabled_providers' = dis
          /\ probe_calls' = ProbesStarted(en)
          /\ results' = [i \in 1..Len(en) |-> Pending]
          /\ IF en = <<>>
             THEN /\ statuses' = StatusesOf(en, dis, <<>>)
                  /\ hpc' = "done"
             ELSE /\ statuses' = NoStatuses
                  /\ hpc' = "gather"
    /\ UNCHANGED <<cfgVars, reqVars, srvVars>>

\* one probe finishes, in any order; an exception is turned into a value by
\* safe_check (138-144)
check_health_completes(i, r) ==
    /\ hpc = "gather"
    /\ i \in 1..Len(results)
    /\ results[i] = Pending
    /\ r \in CheckHealthResults(enabled_providers[i])
    /\ results' = [results EXCEPT ![i] = r]
    /\ UNCHANGED <<hpc, enabled_providers, disabled_providers, statuses,
                   probe_calls>>
    /\ UNCHANGED <<cfgVars, reqVars, srvVars>>

\* variant: the wait ends with the first probe that finishes
GatherDoneFirstCompleted(res) == \E i \in 1..Len(res) : res[i] # Pending

\* await asyncio.gather(*health_check_tasks, return_exceptions=True) is over
\* when every one of the awaitables is (line 149)
GatherDone(res) == \A i \in 1..Len(res) : res[i] # Pending

\* gather returns once every probe has finished; the records and the summary
\* are built and returned (149-189)
gather_returns ==
    /\ hpc = "gather"
    /\ GatherDone(results)
    /\ statuses' = StatusesOf(enabled_providers, disabled_providers, results)
    /\ hpc' = "done"
    /\ UNCHANGED <<enabled_providers, disabled_providers, results,
                   probe_calls>>
    /\ UNCHANGED <<cfgVars, reqVars, srvVars>>

(* ------------------------------ Init ---------------------------------- *)

\* the informational priority of each configuration entry
PriorityOf(name) ==
    CASE name = "gemini-primary" -> 1
      [] name = "ollama-failover" -> 2
      [] OTHER -> 3

TypeOf(name) ==
    CASE name = "gemini-primary" -> "gemini"
      [] name = "ollama-failover" -> "ollama"
      [] OTHER -> "plugin"

Entry(name, en, st) ==
    [name |-> name, type |-> TypeOf(name), enabled |-> en,
     priority |-> PriorityOf(name), streams |-> st]

\* the contents of config/providers.yaml: one entry per name, each enabled
\* or not; the plugin class declares streaming support or keeps the default
ProviderFiles ==
    {[i \in 1..Len(EntryNames) |->
         Entry(EntryNames[i], en[i], IF TypeOf(EntryNames[i]) = "plugin"
                                     THEN st ELSE TRUE)] :
       en \in [1..Len(EntryNames) -> BOOLEAN], st \in BOOLEAN}

RoutingLists == SeqsUpTo(RouteNames, MaxSeq)

DefaultLists == {<<"gemini-primary", "ollama-failover">>, <<"plugin-local">>}

RuleTables ==
    UNION {{[k \in K |-> IF k = DEFAULT THEN d ELSE e] :
               d \in DefaultLists, e \in RoutingLists} :
           K \in SUBSET {"summarize", DEFAULT}}

RoutingFiles ==
    {[kind |-> k, rules |-> <<>>] :
        k \in {"missing", "invalid", "empty", "nokey"}}
    \cup {[kind |-> "rules", rules |-> t] : t \in RuleTables}

AllEnv == {EntryNames[i] : i \in 1..Len(EntryNames)}

(* --------------- api/v1/webhooks/paddle_webhook_router.py -------------- *)

\* the secret Paddle signs its webhooks with
PaddleSecret == "whsec"

\* os.getenv("PADDLE_WEBHOOK_SIGNING_SECRET"): unset or empty, the secret
\* Paddle uses, or one that has been rotated since
Secrets == {"", PaddleSecret, "rotated"}

\* the request bodies, named after the product and the customer data in them
Bodies == {"pro+email", "pro", "enterprise", "unknown+email"}

\* f"{ts}:{raw_body.decode('utf-8')}" (line 58)
SignedPayload(ts, body) == ts \o ":" \o body

\* hmac.new(key, msg, hashlib.sha256).hexdigest() (lines 61-65)
Hmac(key, msg) == "hmac(" \o key \o "," \o msg \o ")"

\* a request without the Paddle-Signature header
NoSignature == [present |-> FALSE, parts |-> <<>>]

\* a header value: its ";" separated parts, each one split at "="
Signature(parts) == [present |-> TRUE, parts |-> parts]

\* the header Paddle computes for a body
PaddleSignature(ts, body) ==
    Signature(<< <<"ts", ts>>,
                 <<"h1", Hmac(PaddleSecret, SignedPayload(ts, body))>> >>)

\* the header values a client sends: none, the empty string, text without
\* "=", one without h1, one with an empty ts, a forged hash, the hash
\* first, and what Paddle computes
Signatures ==
    {NoSignature,
     Signature(<< <<"">> >>),
     Signature(<< <<"garbage">> >>),
     Signature(<< <<"ts", "1">> >>),
     Signature(<< <<"ts", "">>, <<"h1", "forged">> >>),
     Signature(<< <<"ts", "1">>, <<"h1", "forged">> >>),
     Signature(<< <<"h1", Hmac(PaddleSecret,
                               SignedPayload("1", "enterprise"))>>,
                  <<"ts", "1">> >>)}
    \cup {PaddleSignature("1", b) : b \in Bodies}

\* not paddle_signature (line 39): None or the empty string
IsMissing(paddle_signature) ==
    \/ ~paddle_signature.present
    \/ paddle_signature.parts = << <<"">> >>

\* p.split("=")[1] exists for every part (line 46); otherwise IndexError
CanIndex(parts) == \A i \in 1..Len(parts) : Len(parts[i]) >= 2

\* parts.get(key) of the dict built at line 46: the last part with that
\* key wins; "" stands for None
Get(parts, key) ==
    LET at == {i \in 1..Len(parts) : parts[i][1] = key}
    IN  IF at = {} THEN ""
        ELSE parts[CHOOSE i \in at : \A j \in at : j <= i][2]

\* variant: the header is looked at before the secret
verify_webhook_signature_header_first(secret, paddle_signature, body) ==
    IF IsMissing(paddle_signature) THEN 401
    ELSE IF secret = "" THEN 500
    ELSE IF ~CanIndex(paddle_signature.parts) THEN 400
    ELSE LET ts == Get(paddle_signature.parts, "ts")
             h1 == Get(paddle_signature.parts, "h1")
         IN  IF ts = "" \/ h1 = "" THEN 400
             ELSE IF Hmac(secret, SignedPayload(ts, body)) # h1 THEN 403
             ELSE 0

\* the status code of the HTTPException verify_webhook_signature raises,
\* 0 when it returns (lines 35-76)
verify_webhook_signature(secret, paddle_signature, body) ==
    IF secret = "" THEN 500
    ELSE IF IsMissing(paddle_signature) THEN 401
    ELSE IF ~CanIndex(paddle_signature.parts) THEN 400
    ELSE LET ts == Get(paddle_signature.parts, "ts")
             h1 == Get(paddle_signature.parts, "h1")
         IN  IF ts = "" \/ h1 = "" THEN 400
             ELSE IF Hmac(secret, SignedPayload(ts, body)) # h1 THEN 403
             ELSE 0

\* payload["data"]["items"][0]["price"]["product_id"] (lines 98-100)
product_id(body) ==
    CASE body \in {"pro+email", "pro"} -> "praximous_pro_yearly"
      [] body = "enterprise" -> "praximous_enterprise_yearly"
      [] OTHER -> "other_product"

\* payload["data"]["customer"]["email"] (lines 91-93); "" stands for None
customer_email(body) ==
    IF body \in {"pro+email", "unknown+email"} THEN "customer@example.com"
    ELSE ""

\* the tier of a product, "" for an unknown one (lines 105-114)
TierOf(product) ==
    CASE product = "praximous_pro_yearly" -> "PRO"
      [] product = "praximous_enterprise_yearly" -> "ENTERPRISE"
      [] OTHER -> ""

\* core.license_generator.create_signed_license_payload
create_signed_license_payload(customer, tier) ==
    "license(" \o customer \o "," \o tier \o ")"

NoWebhook ==
    [wpc |-> "idle", paddle_signature |-> NoSignature, body |-> "",
     status |-> 0, license |-> "", email_sent |-> FALSE]

\* POST /webhooks/paddle/purchase_completed: the dependency runs before the
\* handler (line 78), which is entered only when it has not raised
post_purchase_completed(paddle_signature, body) ==
    /\ webhook.wpc \in {"idle", "done"}
    /\ LET code == verify_webhook_signature(PADDLE_WEBHOOK_SIGNING_SECRET,
                                            paddle_signature, body)
       IN  webhook' = [wpc |-> IF code = 0 THEN "handler" ELSE "done",
                       paddle_signature |-> paddle_signature,
                       body |-> body,
                       status |-> code,
                       license |-> "",
                       email_sent |-> FALSE]
    /\ UNCHANGED <<spc, request, http_status, skill_started, ws_sent,
                   connected, close_code, http_detail, audit,
                   PADDLE_WEBHOOK_SIGNING_SECRET>>
    /\ UNCHANGED <<cfgVars, reqVars, healthVars>>

\* handle_purchase_completed up to the try statement (lines 88-114)
handle_purchase_completed ==
    /\ webhook.wpc = "handler"
    /\ webhook' = IF TierOf(product_id(webhook.body)) = ""
                  THEN [webhook EXCEPT !.wpc = "done", !.status = 400]
                  ELSE [webhook EXCEPT !.wpc = "license"]
    /\ UNCHANGED <<spc, request, http_status, skill_started, ws_sent,
                   connected, close_code, http_detail, audit,
                   PADDLE_WEBHOOK_SIGNING_SECRET>>
    /\ UNCHANGED <<cfgVars, reqVars, healthVars>>

\* load_private_key and create_signed_license_payload (lines 116-127,
\* 166-172): without the key file the request ends with 500
generate_license(key_found) ==
    /\ webhook.wpc = "license"
    /\ webhook' =
          IF key_found
          THEN [webhook EXCEPT
                   !.wpc = "deliver",
                   !.license = create_signed_license_payload(
                                  IF customer_email(webhook.body) = ""
                                  THEN "None"
                                  ELSE customer_email(webhook.body),
                                  TierOf(product_id(webhook.body)))]
          ELSE [webhook EXCEPT !.wpc = "done", !.status = 500]
    /\ UNCHANGED <<spc, request, http_status, skill_started, ws_sent,
                   connected, close_code, http_detail, audit,
                   PADDLE_WEBHOOK_SIGNING_SECRET>>
    /\ UNCHANGED <<cfgVars, reqVars, healthVars>>

\* the delivery by the email_sender skill (lines 131-164): the mail goes out
\* when the payload has an address and the skill is there; a failure of the
\* skill is logged and the answer is 202 all the same
deliver_license(skill_found, sent) ==
    /\ webhook.wpc = "deliver"
    /\ webhook' = [webhook EXCEPT
                      !.wpc = "done",
                      !.status = 202,
                      !.email_sent = /\ customer_email(webhook.body) # ""
                                     /\ skill_found
                                     /\ sent]
    /\ UNCHANGED <<spc, request, http_status, skill_started, ws_sent,
                   connected, close_code, http_detail, audit,
                   PADDLE_WEBHOOK_SIGNING_SECRET>>
    /\ UNCHANGED <<cfgVars, reqVars, healthVars>>

NoRequest == [endpoint |-> "none", api_key |-> "", task_type |-> ""]

InitRequest ==
    /\ pc = "idle"
    /\ mode = "none"
    /\ task_type = ""
    /\ providers_to_try = <<>>
    /\ idx = 1
    /\ errors = <<>>
    /\ full_prompt = UserPrompt
    /\ outcome = NoOutcome
    /\ emitted = <<>>
    /\ calls = <<>>
    /\ hook_calls = 0
    /\ hpc = "idle"
    /\ enabled_providers = <<>>
    /\ disabled_providers = <<>>
    /\ results = <<>>
    /\ statuses = NoStatuses
    /\ probe_calls = <<>>
    /\ spc = "idle"
    /\ request = NoRequest
    /\ http_status = 0
    /\ skill_started = FALSE
    /\ ws_sent = <<>>
    /\ connected = FALSE
    /\ close_code = 0
    /\ http_detail = [text |-> "", reasons |-> <<>>]
    /\ audit = <<>>
    /\ webhook = NoWebhook

InitCall ==
    /\ InitRequest
    /\ PADDLE_WEBHOOK_SIGNING_SECRET = PaddleSecret

\* the state after the module-level singletons have been constructed
Init ==
    /\ providers_yaml \in ProviderFiles
    /\ routing_yaml \in RoutingFiles
    /\ env = AllEnv
    /\ providers = _load_providers(providers_yaml, env)
    /\ routing_rules = _load_routing_rules(routing_yaml)
    /\ routable_tasks = RoutableTasks(routing_rules)
    /\ identity_complete \in BOOLEAN
    /\ boot = "up"
    /\ InitCall

AllResponses ==
    UNION {BackendResponses(Entry(EntryNames[i], TRUE, TRUE)) :
             i \in 1..Len(EntryNames)}

Next ==
    \/ \E t \in TaskTypes : route_request(t) /\ UNCHANGED srvVars
    \/ route_attempt
    \/ \E r \in AllResponses : generate_async_returns(r)
    \/ \E e \in ExcKinds : generate_async_raises(e)
    \/ \E t \in TaskTypes : route_request_stream(t) /\ UNCHANGED srvVars
    \/ stream_attempt
    \/ stream_chunk
    \/ stream_ends
    \/ \E e \in ExcKinds : stream_fails(e)

Spec == Init /\ [][Next]_vars


\* the registry under every combination of configuration and environment
InitHealth ==
    /\ providers_yaml \in ProviderFiles
    /\ routing_yaml = [kind |-> "missing", rules |-> <<>>]
    /\ env \in SUBSET AllEnv
    /\ providers = _load_providers(providers_yaml, env)
    /\ routing_rules = _load_routing_rules(routing_yaml)
    /\ routable_tasks = RoutableTasks(routing_rules)
    /\ identity_complete = TRUE
    /\ boot = "up"
    /\ InitCall

AllProbeResults ==
    UNION {CheckHealthResults(Entry(EntryNames[i], TRUE, TRUE)) :
             i \in 1..Len(EntryNames)}

NextHealth ==
    \/ get_provider_statuses
    \/ \E i \in 1..Len(EntryNames), r \in AllProbeResults :
          check_health_completes(i, r)
    \/ gather_returns

SpecHealth == InitHealth /\ [][NextHealth]_vars

(* ----------------------------- properties ------------------------------ *)

\* the entry of config/providers.yaml that carries a name
HasEntry(name) == \E k \in 1..Len(providers_yaml) : providers_yaml[k].name = name
EntryOf(name) ==
    providers_yaml[CHOOSE k \in 1..Len(providers_yaml) :
                      providers_yaml[k].name = name]

\* the routing list a task type resolves to (empty when it resolves to none)
ResolvedList(task) ==
    IF task \in DOMAIN routing_rules THEN routing_rules[task]
    ELSE IF DEFAULT \in DOMAIN routing_rules THEN routing_rules[DEFAULT]
    ELSE <<>>

InRegistryEnabled(name) ==
    \E k \in 1..Len(providers) : providers[k].name = name /\ providers[k].enabled

\* the names of the resolved list that are registered and enabled, in the
\* order of the list
Wanted == SelectSeq(ResolvedList(task_type), InRegistryEnabled)

Failed(c) == c.result \in {"raised", "inband"}

\* C1: route_request invokes its candidates in the order of the resolved
\* routing list (the k-th call goes to the k-th registered and enabled name
\* of the list, whatever the priorities), a call is started only when all
\* earlier ones have raised, a successful call is the last one, and the
\* response returned carries the name of the provider of that call.
C1_OrderFirstSuccessWins ==
    mode = "route" =>
        /\ Len(calls) <= Len(Wanted)
        /\ \A i \in 1..Len(calls) : calls[i].provider = Wanted[i]
        /\ \A i \in 1..Len(calls) :
              calls[i].result = "ok" => i = Len(calls) /\ pc = "done"
        /\ \A i \in 1..(Len(calls) - 1) : calls[i].result = "raised"
        /\ outcome.kind = "response" =>
              /\ Len(calls) >= 1
              /\ calls[Len(calls)].result = "ok"
              /\ outcome.provider = calls[Len(calls)].provider

\* the first of two candidates succeeded, the list puts the provider of
\* lower priority first, and the second candidate was not invoked
C1_Witness ==
    /\ mode = "route"
    /\ pc = "done"
    /\ outcome.kind = "response"
    /\ providers_to_try = <<"ollama-failover", "gemini-primary">>
    /\ Len(calls) = 1
    /\ calls[1].provider = "ollama-failover"

\* C2: when route_request ends after every candidate has raised, it fails with
\* NoAvailableProviderError, and the reasons of that error are one per
\* candidate of the resolved list, in list order, each with the exception of
\* that candidate's call; the error is raised only when all were attempted.
C2_AllFailedAggregates ==
    mode = "route" =>
        /\ (pc = "done" /\ Len(calls) = Len(Wanted) /\ Len(calls) >= 1
              /\ \A i \in 1..Len(calls) : calls[i].result = "raised")
           => (outcome.kind = "NoAvailableProviderError"
                 /\ outcome.detail = "all failed")
        /\ (outcome.kind = "NoAvailableProviderError"
              /\ outcome.detail = "all failed")
           => /\ Len(outcome.reasons) = Len(Wanted)
              /\ Len(calls) = Len(Wanted)
              /\ \A i \in 1..Len(Wanted) :
                    /\ outcome.reasons[i].name = Wanted[i]
                    /\ calls[i].provider = Wanted[i]
                    /\ calls[i].result = "raised"
                    /\ outcome.reasons[i].exc = calls[i].exc

\* two candidates were attempted and both raised
C2_Witness ==
    /\ mode = "route"
    /\ pc = "done"
    /\ outcome.kind = "NoAvailableProviderError"
    /\ outcome.detail = "all failed"
    /\ Len(outcome.reasons) = 2
    /\ outcome.reasons[1].exc # outcome.reasons[2].exc

\* C3: whatever a provider call raises, the caller of route_request or
\* route_request_stream sees only a response, a finished stream, the
\* unroutable-task error or NoAvailableProviderError, and every call that
\* raised has its reason in the list of errors at its position.
C3_ProviderErrorsNeverPropagate ==
    /\ outcome.kind \in {"none", "response", "returned", "ValueError",
                         "NoAvailableProviderError"}
    /\ pc = "done" => outcome.kind # "none"
    /\ \A i \in 1..Len(calls) :
          calls[i].result = "raised" =>
              /\ i <= Len(errors)
              /\ errors[i] = [name |-> calls[i].provider, exc |-> calls[i].exc]

\* a provider raised ValueError, the class of the unroutable-task error, and
\* the next candidate answered
C3_Witness ==
    /\ mode = "route"
    /\ pc = "done"
    /\ outcome.kind = "response"
    /\ Len(calls) = 2
    /\ calls[1].exc = "ValueError"

\* C4: in route_request_stream a candidate whose backend fails before
\* any chunk is a failed candidate: while candidates remain after it, the
\* call does not end without the stream of the next one having been started.
C4_PreChunkFailureFailsOver ==
    mode = "stream" =>
        \A i \in 1..Len(calls) :
            (Failed(calls[i]) /\ calls[i].chunks = 0
               /\ i < Len(providers_to_try) /\ pc = "done")
            => Len(calls) > i

C6_DisabledNeverInvoked ==
    \A i \in 1..Len(calls) :
        /\ HasEntry(calls[i].provider)
        /\ EntryOf(calls[i].provider).enabled
        /\ mode = "stream" =>
              (EntryOf(calls[i].provider).type \in {"gemini", "ollama"}
                 \/ EntryOf(calls[i].provider).streams)

\* a stream was served by the second name of a resolved list whose first
\* name is a configuration entry with enabled false
C6_Witness ==
    /\ mode = "stream"
    /\ pc = "done"
    /\ Len(ResolvedList(task_type)) = 2
    /\ HasEntry(ResolvedList(task_type)[1])
    /\ ~EntryOf(ResolvedList(task_type)[1]).enabled
    /\ Len(calls) = 1
    /\ calls[1].provider = ResolvedList(task_type)[2]
    /\ calls[1].provider # ResolvedList(task_type)[1]

\* C7: get_provider_statuses returns, for every configuration entry with
\* enabled false, a record with status Disabled, and check_health is not
\* invoked on such a provider.
C7_DisabledReported ==
    statuses.returned =>
        \A k \in 1..Len(providers_yaml) :
            ~providers_yaml[k].enabled =>
                /\ \E j \in 1..Len(statuses.providers) :
                      /\ statuses.providers[j].name = providers_yaml[k].name
                      /\ statuses.providers[j].status = "Disabled"
                /\ providers_yaml[k].name \notin Range(probe_calls)

\* C8: a call of route_request or route_request_stream that has started a
\* provider call has called get_system_prompt exactly once.
C8_HookCalledOnce ==
    Len(calls) >= 1 => hook_calls = 1

\* C9: all provider calls of one route_request or route_request_stream call
\* are given the same decorated prompt.
C9_SamePromptForAllAttempts ==
    \A i, j \in 1..Len(calls) : calls[i].prompt = calls[j].prompt

\* two candidates were attempted with a decorated prompt
C9_Witness ==
    /\ Len(calls) = 2
    /\ identity_complete
    /\ calls[2].prompt.wraps = 1
    /\ calls[2].prompt # UserPrompt

\* C10: at most one provider call of a route_request or route_request_stream
\* call is in flight, and every call but the latest has raised.
C10_AttemptsSequential ==
    /\ Cardinality({i \in 1..Len(calls) : calls[i].result = "pending"}) <= 1
    /\ \A i \in 1..Len(calls) :
          calls[i].result = "pending" => i = Len(calls)
    /\ \A i \in 1..(Len(calls) - 1) : calls[i].result = "raised"

\* the second attempt is in flight after the first has raised
C10_Witness ==
    /\ Len(calls) = 2
    /\ calls[1].result = "raised"
    /\ calls[2].result = "pending"

InRegistryStreaming(name) ==
    \E k \in 1..Len(providers) :
        /\ providers[k].name = name
        /\ providers[k].enabled
        /\ (providers[k].type \in {"gemini", "ollama"} \/ providers[k].streams)

\* the candidates a routing list gives to the call in progress
WantedFrom(list) ==
    IF mode = "stream" THEN SelectSeq(list, InRegistryStreaming)
    ELSE SelectSeq(list, InRegistryEnabled)

\* C11: the candidates of route_request and route_request_stream come from
\* the explicit entry of the task type when the table has one, and from the
\* __default__ entry when it has none.
C11_DefaultForUnlistedTasks ==
    mode \in {"route", "stream"} =>
        /\ task_type \in DOMAIN routing_rules
              => providers_to_try = WantedFrom(routing_rules[task_type])
        /\ (task_type \notin DOMAIN routing_rules
              /\ DEFAULT \in DOMAIN routing_rules)
              => providers_to_try = WantedFrom(routing_rules[DEFAULT])

\* an unlisted task type was served by a provider of the default list that
\* the explicit entry of another task type does not name
C11_Witness ==
    /\ mode = "route"
    /\ task_type = "translate"
    /\ DOMAIN routing_rules = {"summarize", DEFAULT}
    /\ outcome.kind = "response"
    /\ outcome.provider \in Range(routing_rules[DEFAULT])
    /\ outcome.provider \notin Range(routing_rules["summarize"])

(* --------------------------- module import ----------------------------- *)

\* a configuration entry of a kind the registry does not know
EntryOfType(name, type, en) ==
    [name |-> name, type |-> type, enabled |-> en,
     priority |-> PriorityOf(name), streams |-> TRUE]

\* config/providers.yaml with entries of known and unknown kinds
LoadProviderFiles ==
    {[i \in 1..Len(EntryNames) |-> EntryOfType(EntryNames[i], ty[i], en[i])] :
       en \in [1..Len(EntryNames) -> BOOLEAN],
       ty \in {f \in [1..Len(EntryNames) -> PROVIDER_CLASSES \cup {"mystery"}] :
                 \A i \in 1..Len(EntryNames) :
                     f[i] \in {TypeOf(EntryNames[i]), "mystery"}}}

\* the characters of the string in "summarize: gemini-primary"
ScalarValue ==
    <<"g", "e", "m", "i", "n", "i", "-", "p", "r", "i", "m", "a", "r", "y">>

\* well-formed tables, with and without the reserved entry
LoadRuleTables ==
    UNION {{[k \in K |-> IF k = DEFAULT THEN d ELSE e] :
               d \in DefaultLists, e \in DefaultLists} :
           K \in SUBSET {"summarize", DEFAULT}}

\* config/routing.yaml in every shape, the malformed ones included
LoadRoutingFiles ==
    {[kind |-> k, rules |-> <<>>] :
        k \in {"missing", "invalid", "empty", "nokey"}}
    \cup {[kind |-> "rules", rules |-> t] : t \in LoadRuleTables}
    \cup {[kind |-> "scalar", rules |-> ("summarize" :> ScalarValue)],
          [kind |-> "list", rules |-> <<"gemini-primary">>]}

\* provider_manager = ProviderManager() (provider_manager.py 256-258, 311)
ProviderManager_init ==
    /\ boot = "start"
    /\ providers' = _load_providers(providers_yaml, env)
    /\ boot' = "providers"
    /\ UNCHANGED <<providers_yaml, routing_yaml, env, routing_rules,
                   routable_tasks, identity_complete>>
    /\ UNCHANGED <<reqVars, healthVars, srvVars>>

\* model_router = ModelRouter() (model_router.py 19-28, 192); keys() of a
\* value that is no mapping raises and the import fails
ModelRouter_init ==
    /\ boot = "providers"
    /\ routing_rules' = _load_routing_rules(routing_yaml)
    /\ IF HasKeys(routing_yaml)
       THEN /\ routable_tasks' = RoutableTasks(_load_routing_rules(routing_yaml))
            /\ boot' = "up"
       ELSE /\ routable_tasks' = routable_tasks
            /\ boot' = "crashed"
    /\ UNCHANGED <<providers_yaml, routing_yaml, env, providers,
                   identity_complete>>
    /\ UNCHANGED <<reqVars, healthVars, srvVars>>

\* before the modules are imported
InitLoad ==
    /\ providers_yaml \in LoadProviderFiles
    /\ routing_yaml \in LoadRoutingFiles
    /\ env \in SUBSET AllEnv
    /\ providers = <<>>
    /\ routing_rules = <<>>
    /\ routable_tasks = {}
    /\ identity_complete = TRUE
    /\ boot = "start"
    /\ InitCall

NextLoad ==
    \/ ProviderManager_init
    \/ ModelRouter_init

SpecLoad == InitLoad /\ [][NextLoad]_vars

\* the file gives no mapping of task type to list of names
Malformed(file) ==
    file.kind \in {"missing", "invalid", "empty", "nokey", "scalar", "list"}

\* C12: after ModelRouter construction from an absent, unreadable or
\* malformed routing configuration the routing table is exactly
\* {__default__: [gemini-primary, ollama-failover]} and every task type
\* resolves to that list.
C12_MalformedFallsBack ==
    (boot = "up" /\ Malformed(routing_yaml)) =>
        /\ DOMAIN routing_rules = {DEFAULT}
        /\ routing_rules[DEFAULT] = <<"gemini-primary", "ollama-failover">>
        /\ \A t \in TaskTypes :
              ResolvedList(t) = <<"gemini-primary", "ollama-failover">>

\* C13: after ModelRouter construction the routing table has a __default__
\* entry.
C13_DefaultEntryAlwaysPresent ==
    boot = "up" => DEFAULT \in DOMAIN routing_rules

\* the entries whose provider the registry is to hold: enabled, of a known
\* kind, and constructed without an error
Loadable(e) ==
    e.enabled /\ e.type \in {"gemini", "ollama", "plugin"} /\ e.name \in env

\* C20: once the registry is loaded it holds exactly the providers of the
\* entries that are enabled, of a known kind and constructible, in file
\* order: an entry that fails or is of an unknown kind is left out and
\* takes no other entry with it.
C20_LoadIsolatesFailures ==
    boot \in {"providers", "up", "crashed"} =>
        /\ providers = SelectSeq(providers_yaml, Loadable)
        /\ \A i \in 1..Len(providers_yaml) :
              ~Loadable(providers_yaml[i]) =>
                  \A k \in 1..Len(providers) :
                      providers[k].name # providers_yaml[i].name

\* the second entry failed to construct, the first and the third are loaded
C20_Witness ==
    /\ boot = "providers"
    /\ providers_yaml[2].enabled
    /\ providers_yaml[2].type = "ollama"
    /\ providers_yaml[2].name \notin env
    /\ Len(providers) = 2
    /\ providers[1].name = providers_yaml[1].name
    /\ providers[2].name = providers_yaml[3].name

RecordsOf(name) ==
    {j \in 1..Len(statuses.providers) : statuses.providers[j].name = name}

RecordOf(name) == statuses.providers[CHOOSE j \in RecordsOf(name) : TRUE]

\* C16: get_provider_statuses always returns, with exactly one record per
\* provider of the registry; a probe that raised gives a record with status
\* Error and the exception message in its details, and every probe that
\* returned a dict with a status gives a record with that status and its
\* details, whatever the other probes did.
C16_ProbeExceptionIsolated ==
    /\ hpc = "done" => statuses.returned
    /\ statuses.returned =>
          /\ Len(statuses.providers) = Len(providers)
          /\ \A k \in 1..Len(providers) :
                Cardinality(RecordsOf(providers[k].name)) = 1
          /\ \A i \in 1..Len(enabled_providers) :
                LET rec == RecordOf(enabled_providers[i].name) IN
                /\ results[i].kind = "exception" =>
                      /\ rec.status = "Error"
                      /\ rec.details =
                            <<"Health check failed: ", results[i].details>>
                /\ (results[i].kind = "dict" /\ results[i].status # "absent")
                      => /\ rec.status = results[i].status
                         /\ rec.details = <<results[i].details>>

\* three enabled providers, two probes answered Active and one raised: three
\* records, one of them Error, and errors: 1 in the summary
C16_Witness ==
    /\ statuses.returned
    /\ Len(statuses.providers) = 3
    /\ Cardinality({i \in 1..3 : results[i].kind = "exception"}) = 1
    /\ Cardinality({i \in 1..3 : results[i].status = "Active"}) = 2
    /\ Cardinality({j \in 1..3 : statuses.providers[j].status = "Error"}) = 1
    /\ statuses.summary.errors = 1

\* C17: while get_provider_statuses waits, and after it, check_health has
\* been invoked exactly once on every enabled provider of the registry and
\* on no other: all probes are started before any is awaited, so they are in
\* flight together whatever the outcome of a sibling.
C17_ProbesStartedTogether ==
    hpc \in {"gather", "done"} =>
        /\ Len(results) = Len(probe_calls)
        /\ \A k \in 1..Len(providers) :
              providers[k].enabled =>
                  Cardinality({i \in 1..Len(probe_calls) :
                                  probe_calls[i] = providers[k].name}) = 1
        /\ \A i \in 1..Len(probe_calls) :
              \E k \in 1..Len(providers) :
                  providers[k].name = probe_calls[i] /\ providers[k].enabled

\* one probe has raised while two others are still in flight
C17_Witness ==
    /\ hpc = "gather"
    /\ Len(probe_calls) = 3
    /\ Cardinality({i \in 1..3 : results[i] = Pending}) = 2
    /\ \E i \in 1..3 : results[i].kind = "exception"

StatusDomain == {"Active", "Offline", "Error", "Disabled", "Unknown"}

C21_NoProviderInvokedTwice ==
    mode = "route" =>
        \A i, j \in 1..Len(calls) :
            i # j => calls[i].provider # calls[j].provider

\* C22: a response returned by route_request names, in its provider field,
\* the provider whose call produced it, whatever provider value the backend
\* put in the response.
C22_ResponseNamesServingProvider ==
    (mode = "route" /\ outcome.kind = "response") =>
        /\ Len(calls) >= 1
        /\ calls[Len(calls)].result = "ok"
        /\ outcome.provider = calls[Len(calls)].provider
        /\ InRegistryEnabled(outcome.provider)

\* the backend's response carried another provider value and the result
\* names the provider of the registry
C22_Witness ==
    /\ mode = "route"
    /\ outcome.kind = "response"
    /\ calls[Len(calls)].backend = "backend-model"
    /\ outcome.provider = "plugin-local"

\* C23: the elements route_request_stream yields are, call by call, the
\* elements the provider's stream produced, one for one and in the same
\* order, each with the name of that provider, and the provider's own
\* objects carry no provider value afterwards.
C23_ChunksReemittedInOrder ==
    mode = "stream" =>
        /\ Len(calls) = 0 => Len(emitted) = 0
        /\ \A i \in 1..Len(calls) :
              LET c == calls[i] IN
              /\ c.emitted_before =
                    (IF i = 1 THEN 0
                     ELSE calls[i - 1].emitted_before
                             + Len(calls[i - 1].yielded))
              /\ i = Len(calls) =>
                    Len(emitted) = c.emitted_before + Len(c.yielded)
              /\ \A k \in 1..Len(c.yielded) :
                    /\ c.yielded[k].provider = ""
                    /\ c.emitted_before + k <= Len(emitted)
                    /\ emitted[c.emitted_before + k] =
                          [type |-> c.yielded[k].type,
                           token |-> c.yielded[k].token,
                           provider |-> c.provider]

\* a stream of two chunks was re-emitted and has ended
C23_Witness ==
    /\ mode = "stream"
    /\ pc = "done"
    /\ outcome.kind = "returned"
    /\ Len(emitted) = 2
    /\ emitted[1].token = 1 /\ emitted[2].token = 2
    /\ emitted[1].provider = "gemini-primary"
    /\ calls[1].yielded = <<Chunk("stream_chunk", 1), Chunk("stream_chunk", 2)>>

\* the calls made to providers of the built-in classes
BuiltInCalls ==
    {i \in 1..Len(calls) :
        HasEntry(calls[i].provider)
        /\ EntryOf(calls[i].provider).type \in {"gemini", "ollama"}}

\* C24: a stream of a built-in provider never raises; when its backend fails
\* it has yielded the chunks produced before the failure, unchanged, then
\* exactly one error element, and it has ended; without a failure it yields
\* no error element.
C24_BuiltInStreamsFailInBand ==
    mode = "stream" =>
        \A i \in BuiltInCalls :
            LET c == calls[i]
                n == Len(c.yielded)
            IN /\ c.result # "raised"
               /\ c.exc # "" =>
                     /\ c.result = "inband"
                     /\ n = c.chunks + 1
                     /\ c.yielded[n].type = "error"
                     /\ \A k \in 1..(n - 1) :
                           c.yielded[k] = Chunk("stream_chunk", k)
                     /\ i = Len(calls) /\ pc = "done"
               /\ c.exc = "" =>
                     \A k \in 1..n : c.yielded[k] = Chunk("stream_chunk", k)

\* the backend of a built-in provider failed after one chunk
C24_Witness ==
    /\ mode = "stream"
    /\ Len(calls) = 1
    /\ calls[1].provider = "ollama-failover"
    /\ calls[1].result = "inband"
    /\ calls[1].yielded = <<Chunk("stream_chunk", 1), Chunk("error", 0)>>

InRegistry(name) == \E k \in 1..Len(providers) : providers[k].name = name

\* C30: a name of the resolved list that the registry does not hold is
\* never called and gives no reason to the aggregate error, and the
\* candidates around it are still tried in the order of the list: the call
\* fails for want of candidates only when the list has none, and with the
\* aggregate error only when every candidate was called.
C30_AbsentNamesSkipped ==
    mode \in {"route", "stream"} =>
        LET wanted == WantedFrom(ResolvedList(task_type)) IN
        /\ \A i \in 1..Len(calls) : InRegistry(calls[i].provider)
        /\ \A i \in 1..Len(errors) : InRegistry(errors[i].name)
        /\ \A i \in 1..Len(outcome.reasons) : InRegistry(outcome.reasons[i].name)
        /\ \A i \in 1..Len(calls) :
              i <= Len(wanted) /\ calls[i].provider = wanted[i]
        /\ (outcome.kind = "NoAvailableProviderError"
              /\ outcome.detail \in {"none enabled", "none streaming"})
           => wanted = <<>>
        /\ (outcome.kind = "NoAvailableProviderError"
              /\ outcome.detail = "all failed")
           => /\ Len(calls) = Len(wanted)
              /\ Len(outcome.reasons) = Len(wanted)

\* the list names an absent provider before a registered one, which was
\* called, raised, and is the only reason of the aggregate error
C30_Witness ==
    /\ mode = "route"
    /\ pc = "done"
    /\ ResolvedList(task_type) = <<GhostName, "gemini-primary">>
    /\ Len(calls) = 1
    /\ calls[1].provider = "gemini-primary"
    /\ outcome.kind = "NoAvailableProviderError"
    /\ Len(outcome.reasons) = 1
    /\ outcome.reasons[1].name = "gemini-primary"

\* C27: the routable-task set is the set of keys of the routing table without
\* the reserved key, in every state after construction.
C27_RoutableTasksAreExplicitKeys ==
    /\ routable_tasks = (DOMAIN routing_rules) \ {DEFAULT}
    /\ DEFAULT \notin routable_tasks

\* after a call has ended, with a table that has the reserved key and an
\* explicit one
C27_Witness ==
    /\ pc = "done"
    /\ Len(calls) >= 1
    /\ DOMAIN routing_rules = {DEFAULT, "summarize"}
    /\ routable_tasks = {"summarize"}

(* ------------- the router's operations running side by side ------------ *)

\* the server is asynchronous: a health request is served while a routing
\* request awaits its provider.  All entries enabled, the default table.
InitFrame ==
    /\ providers_yaml \in {f \in ProviderFiles :
                              \A i \in 1..Len(f) : f[i].enabled}
    /\ routing_yaml = [kind |-> "missing", rules |-> <<>>]
    /\ env = AllEnv
    /\ providers = _load_providers(providers_yaml, env)
    /\ routing_rules = _load_routing_rules(routing_yaml)
    /\ routable_tasks = RoutableTasks(routing_rules)
    /\ identity_complete = TRUE
    /\ boot = "up"
    /\ InitCall

NextFrame == Next \/ NextHealth

SpecFrame == InitFrame /\ [][NextFrame]_vars

\* C28: no step of route_request, route_request_stream or
\* get_provider_statuses (and so no get_provider lookup made by them)
\* changes the routing table, the routable-task set or the registry.
C28_ConfigurationReadOnly ==
    [][/\ routing_rules' = routing_rules
       /\ routable_tasks' = routable_tasks
       /\ providers' = providers]_vars

\* a routing call has failed and a health call has returned, and the
\* configuration is the loaded one
C28_Witness ==
    /\ pc = "done"
    /\ outcome.kind = "NoAvailableProviderError"
    /\ Len(calls) = 2
    /\ statuses.returned
    /\ Len(providers) = 3
    /\ DOMAIN routing_rules = {DEFAULT}
    /\ routable_tasks = {}

(* ------------------------------ api/server.py -------------------------- *)

\* the X-API-Key header / api_key query parameter of a request
ApiKeys == {"valid", "invalid", "missing"}

\* core.skill_manager: the names get_skill finds a class for
SkillNames == {"echo"}

\* the task types the clients of the server send
ServerTasks == {"summarize", "echo", "nothing", DEFAULT}

\* core.security.validate_api_key raises HTTPException(401) unless the key
\* is a known one
validate_api_key(key) == key = "valid"

\* skill_manager.get_skill(task_type) returns a class or None
get_skill(task) == task \in SkillNames

\* what skill_instance.execute gives: success, success with data that
\* ProcessResponse rejects, a reported failure, or an exception
SkillResults == {"success", "invalid_data", "failure", "raises"}

\* the status process_task answers with after route_request (lines 136-146)
StatusOfOutcome(o) ==
    CASE o.kind = "response" -> 200
      [] o.kind = "NoAvailableProviderError" -> 503
      [] OTHER -> 500

\* no HTTPException was raised
NoDetail == [text |-> "", reasons |-> <<>>]

\* variant: the reasons the router collected are put into the detail
DetailOfOutcomeWithReasons(o) ==
    CASE o.kind = "response" -> NoDetail
      [] o.kind = "NoAvailableProviderError" ->
           [text |-> "All LLM providers are currently unavailable.",
            reasons |-> o.reasons]
      [] OTHER ->
           [text |-> "An unexpected error occurred during LLM routing.",
            reasons |-> o.reasons]

\* the detail of the HTTPException raised after route_request (lines 143,
\* 146): a fixed text, the exception is only logged
DetailOfOutcome(o) ==
    CASE o.kind = "response" -> NoDetail
      [] o.kind = "NoAvailableProviderError" ->
           [text |-> "All LLM providers are currently unavailable.",
            reasons |-> <<>>]
      [] OTHER ->
           [text |-> "An unexpected error occurred during LLM routing.",
            reasons |-> <<>>]

\* the detail of the HTTPException of the skill path (lines 150, 165, 172)
DetailOfStatus(code) ==
    CASE code = 200 -> NoDetail
      [] code = 404 -> [text |-> "Skill or LLM route not found.",
                        reasons |-> <<>>]
      [] code = 400 -> [text |-> "Skill execution failed.", reasons |-> <<>>]
      [] OTHER -> [text |-> "An unexpected internal server error occurred.",
                   reasons |-> <<>>]

\* status and provider as the finally clause passes them to log_interaction
\* after route_request (lines 126-127, 136-137, 142)
LogOfOutcome(o) ==
    [status |-> IF o.kind = "response" THEN "success" ELSE "error",
     provider |-> CASE o.kind = "response" -> o.provider
                    [] o.kind = "NoAvailableProviderError" ->
                         "failover_exhausted"
                    [] OTHER -> "None"]

\* variant: the status set before the response is built is kept
StatusLoggedAsSet(result) ==
    IF result \in {"success", "invalid_data"} THEN "success" ELSE "error"

\* the status logged after a skill ran (lines 126, 158, 171)
StatusLogged(result) == IF result = "success" THEN "success" ELSE "error"

\* provider = f"skill:{skill_instance.name}" (line 152)
SkillProvider(name) == "skill:" \o name

\* {"type": "stream_end", "request_id": ...}
StreamEnd == Chunk("stream_end", 0)

\* {"type": "error", "detail": "An unexpected error occurred: ..."}
ErrorMessage == Chunk("error", 0)

\* no call of the router belongs to the request
NoRouterCall ==
    /\ pc' = "idle"
    /\ mode' = "none"
    /\ task_type' = ""
    /\ providers_to_try' = <<>>
    /\ idx' = 1
    /\ errors' = <<>>
    /\ full_prompt' = UserPrompt
    /\ outcome' = NoOutcome
    /\ emitted' = <<>>
    /\ calls' = <<>>
    /\ hook_calls' = 0

\* request.task_type in model_router.routing_rules (lines 132, 212)
RoutesToLLM(task) == task \in DOMAIN routing_rules

\* POST /api/v1/process up to the first await: the handler has no API-key
\* dependency (lines 93 and 123), so the key is not looked at
process_task(key, task) ==
    /\ UNCHANGED whVars
    /\ spc \in {"idle", "done"}
    /\ pc \in {"idle", "done"}
    /\ request' = [endpoint |-> "process", api_key |-> key, task_type |-> task]
    /\ ws_sent' = <<>>
    /\ connected' = FALSE
    /\ close_code' = 0
    /\ IF RoutesToLLM(task)
       THEN /\ route_request(task)
            /\ spc' = "routing"
            /\ http_status' = 0
            /\ http_detail' = NoDetail
            /\ skill_started' = FALSE
            /\ audit' = <<>>
       ELSE /\ IF get_skill(task)
               THEN /\ spc' = "skill"
                    /\ http_status' = 0
                    /\ http_detail' = NoDetail
                    /\ skill_started' = TRUE
                    /\ audit' = <<>>
               ELSE /\ spc' = "done"
                    /\ http_status' = 404
                    /\ http_detail' = DetailOfStatus(404)
                    /\ skill_started' = FALSE
                    /\ audit' = <<[status |-> "error", provider |-> "None"]>>
            /\ NoRouterCall
            /\ UNCHANGED <<cfgVars, healthVars>>

\* route_request has returned or raised: 200, 503 or 500 (lines 136-146),
\* then the finally clause logs the interaction (lines 174-185)
process_task_returns ==
    /\ UNCHANGED whVars
    /\ spc = "routing"
    /\ pc = "done"
    /\ http_status' = StatusOfOutcome(outcome)
    /\ http_detail' = DetailOfOutcome(outcome)
    /\ audit' = Append(audit, LogOfOutcome(outcome))
    /\ spc' = "done"
    /\ UNCHANGED <<request, skill_started, ws_sent, connected, close_code>>
    /\ UNCHANGED <<cfgVars, reqVars, healthVars>>

\* skill_instance.execute has ended (lines 155-172), then the finally
\* clause logs the interaction (lines 174-185)
skill_completes(result) ==
    /\ UNCHANGED whVars
    /\ spc = "skill"
    /\ http_status' = (CASE result = "success" -> 200
                         [] result = "failure" -> 400
                         [] OTHER -> 500)
    /\ http_detail' = DetailOfStatus(http_status')
    /\ audit' = Append(audit, [status |-> StatusLogged(result),
                               provider |->
                                   SkillProvider(request.task_type)])
    /\ spc' = "done"
    /\ UNCHANGED <<request, skill_started, ws_sent, connected, close_code>>
    /\ UNCHANGED <<cfgVars, reqVars, healthVars>>

\* variant: the handler goes on to the payload after the close
ReceivesPayloadAlways(valid) == TRUE

\* the handler reaches receive_json only when validate_api_key has not
\* raised: the except clause closes and returns (lines 195-202)
ReceivesPayload(valid) == valid

\* websocket /api/v1/process-stream up to receive_json (lines 194-204)
process_task_stream(key) ==
    /\ UNCHANGED whVars
    /\ spc \in {"idle", "done"}
    /\ pc \in {"idle", "done"}
    /\ request' = [endpoint |-> "stream", api_key |-> key, task_type |-> ""]
    /\ ws_sent' = <<>>
    /\ http_status' = 0
    /\ http_detail' = NoDetail
    /\ audit' = <<>>
    /\ skill_started' = FALSE
    /\ connected' = validate_api_key(key)
    /\ close_code' = (IF validate_api_key(key) THEN 0 ELSE 4001)
    /\ spc' = (IF ReceivesPayload(validate_api_key(key)) THEN "receive"
               ELSE "done")
    /\ NoRouterCall
    /\ UNCHANGED <<cfgVars, healthVars>>

\* the client goes away while the handler is at work
client_disconnects ==
    /\ UNCHANGED whVars
    /\ spc \in {"receive", "streaming"}
    /\ connected
    /\ connected' = FALSE
    /\ UNCHANGED <<spc, request, http_status, skill_started, ws_sent,
                   close_code>>
    /\ UNCHANGED <<http_detail, audit>>
    /\ UNCHANGED <<cfgVars, reqVars, healthVars>>

\* receive_json returns the payload (lines 208-216): a task type the routing
\* table lacks is answered with an error message, any other starts the stream
receive_json(task) ==
    /\ UNCHANGED whVars
    /\ spc = "receive"
    /\ connected
    /\ request' = [request EXCEPT !.task_type = task]
    /\ IF RoutesToLLM(task)
       THEN /\ route_request_stream(task)
            /\ ws_sent' = ws_sent
            /\ spc' = "streaming"
       ELSE /\ ws_sent' = Append(ws_sent, ErrorMessage)
            /\ spc' = "done"
            /\ UNCHANGED <<cfgVars, reqVars, healthVars>>
    /\ UNCHANGED <<http_status, skill_started, connected, close_code>>
    /\ UNCHANGED <<http_detail, audit>>

\* receive_json raises WebSocketDisconnect (lines 223-224)
receive_json_disconnected ==
    /\ UNCHANGED whVars
    /\ spc = "receive"
    /\ ~connected
    /\ spc' = "done"
    /\ UNCHANGED <<request, http_status, skill_started, ws_sent, connected,
                   close_code>>
    /\ UNCHANGED <<http_detail, audit>>
    /\ UNCHANGED <<cfgVars, reqVars, healthVars>>

\* the handler asks the generator for its next element only when it has
\* sent the one before
StreamPulled == spc = "streaming" /\ Len(ws_sent) = Len(emitted)

\* await websocket.send_json(chunk) (line 217); with the client gone it
\* raises WebSocketDisconnect, the handler ends and the generator is dropped
send_json_chunk ==
    /\ UNCHANGED whVars
    /\ spc = "streaming"
    /\ Len(ws_sent) < Len(emitted)
    /\ IF connected
       THEN /\ ws_sent' = Append(ws_sent, emitted[Len(ws_sent) + 1])
            /\ UNCHANGED <<spc, pc>>
       ELSE /\ ws_sent' = ws_sent
            /\ spc' = "done"
            /\ pc' = "done"
    /\ UNCHANGED <<request, http_status, skill_started, connected, close_code>>
    /\ UNCHANGED <<http_detail, audit>>
    /\ UNCHANGED <<mode, task_type, providers_to_try, idx, errors, full_prompt,
                   outcome, emitted, calls, hook_calls>>
    /\ UNCHANGED <<cfgVars, healthVars>>

\* variant: the end marker is sent whatever the way the loop was left
LastMessageAlwaysEnd(o) == StreamEnd

\* the message that follows the loop: the end marker after a stream that
\* returned (line 220), the error message after an exception (line 228)
LastMessage(o) == IF o.kind = "returned" THEN StreamEnd ELSE ErrorMessage

\* the generator has returned or raised and every chunk has been sent
\* (lines 219-231); a send to a client that is gone raises and sends nothing
process_task_stream_ends ==
    /\ UNCHANGED whVars
    /\ spc = "streaming"
    /\ pc = "done"
    /\ Len(ws_sent) = Len(emitted)
    /\ ws_sent' = IF connected THEN Append(ws_sent, LastMessage(outcome))
                  ELSE ws_sent
    /\ spc' = "done"
    /\ UNCHANGED <<request, http_status, skill_started, connected, close_code>>
    /\ UNCHANGED <<http_detail, audit>>
    /\ UNCHANGED <<cfgVars, reqVars, healthVars>>

ServerTables ==
    {[kind |-> "missing", rules |-> <<>>],
     [kind |-> "rules",
      rules |-> [k \in {"summarize", DEFAULT} |->
                    IF k = DEFAULT THEN <<"ollama-failover">>
                    ELSE <<"gemini-primary", "plugin-local">>]],
     [kind |-> "rules",
      rules |-> [k \in {"summarize"} |-> <<"plugin-local", "ollama-failover">>]],
     [kind |-> "rules",
      rules |-> [k \in {"echo"} |-> <<"plugin-local", "ollama-failover">>]],
     [kind |-> "rules", rules |-> [k \in {"summarize"} |-> <<>>]]}

InitServer ==
    /\ providers_yaml \in ProviderFiles
    /\ routing_yaml \in ServerTables
    /\ env = AllEnv
    /\ providers = _load_providers(providers_yaml, env)
    /\ routing_rules = _load_routing_rules(routing_yaml)
    /\ routable_tasks = RoutableTasks(routing_rules)
    /\ identity_complete = TRUE
    /\ boot = "up"
    /\ InitCall

NextServer ==
    \/ \E k \in ApiKeys, t \in ServerTasks : process_task(k, t)
    \/ route_attempt
    \/ \E r \in AllResponses : generate_async_returns(r)
    \/ \E e \in ExcKinds : generate_async_raises(e)
    \/ process_task_returns
    \/ \E r \in SkillResults : skill_completes(r)
    \/ \E k \in {"valid", "invalid"} : process_task_stream(k)
    \/ client_disconnects
    \/ \E t \in ServerTasks : receive_json(t)
    \/ receive_json_disconnected
    \/ StreamPulled /\ stream_attempt
    \/ StreamPulled /\ stream_chunk
    \/ StreamPulled /\ stream_ends
    \/ \E e \in ExcKinds : StreamPulled /\ stream_fails(e)
    \/ send_json_chunk
    \/ process_task_stream_ends

SpecServer == InitServer /\ [][NextServer]_vars

\* C25: a POST /api/v1/process request without a valid API key is answered
\* 401 and neither routed to a provider nor given to a skill.
C25_ProcessRequiresApiKey ==
    (request.endpoint = "process"
       /\ request.api_key \in {"missing", "invalid"}) =>
        /\ spc \notin {"routing", "skill"}
        /\ mode # "route"
        /\ ~skill_started
        /\ spc = "done" => http_status = 401

\* the positions of the end marker among the messages sent
StreamEnds == {i \in 1..Len(ws_sent) : ws_sent[i].type = "stream_end"}

\* C26: on the WebSocket endpoint the end marker is sent at most once, only
\* after the routed stream has returned, after every chunk of it has been
\* forwarded and as the last message; it is sent when the stream returned
\* and the client is still there, and never when routing failed or the
\* client has disconnected.
C26_StreamEndOnceAndLast ==
    request.endpoint = "stream" =>
        /\ Cardinality(StreamEnds) <= 1
        /\ \A i \in StreamEnds :
              /\ i = Len(ws_sent)
              /\ spc = "done"
              /\ outcome.kind = "returned"
              /\ i = Len(emitted) + 1
              /\ \A k \in 1..Len(emitted) : ws_sent[k] = emitted[k]
        /\ (spc = "done" /\ outcome.kind = "returned" /\ connected)
           => StreamEnds # {}
        /\ (spc = "done" /\ (outcome.kind # "returned" \/ ~connected))
           => StreamEnds = {}

\* two chunks were forwarded and the end marker followed them
C26_Witness ==
    /\ request.endpoint = "stream"
    /\ spc = "done"
    /\ Len(ws_sent) = 3
    /\ ws_sent[1].type = "stream_chunk"
    /\ ws_sent[2].type = "stream_chunk"
    /\ ws_sent[3] = StreamEnd

\* C29: a request whose task type is not a key of the routing table other
\* than the reserved one never reaches the router: process_task goes on to
\* the skill lookup and process_task_stream answers with the error message,
\* and no provider is called.
C29_OnlyRoutableTasksReachRouter ==
    (request.endpoint \in {"process", "stream"}
       /\ request.task_type # ""
       /\ request.task_type \notin (DOMAIN routing_rules) \ {DEFAULT}) =>
        /\ mode = "none"
        /\ calls = <<>>
        /\ spc \notin {"routing", "streaming"}
        /\ request.endpoint = "stream" =>
              spc = "done" /\ ws_sent = <<ErrorMessage>>

\* C31: when route_request_stream has ended after every streaming candidate
\* raised before its first chunk, it has failed with NoAvailableProviderError
\* whose reasons are those of the calls, one per call and in their order,
\* and nothing was yielded to the caller.
C31_AllStreamsFailedAggregates ==
    (mode = "stream" /\ pc = "done" /\ Len(calls) >= 1
       /\ Len(calls) = Len(WantedFrom(ResolvedList(task_type)))
       /\ \A i \in 1..Len(calls) :
             calls[i].result = "raised" /\ calls[i].chunks = 0) =>
        /\ outcome.kind = "NoAvailableProviderError"
        /\ outcome.detail = "all failed"
        /\ Len(outcome.reasons) = Len(calls)
        /\ \A i \in 1..Len(calls) :
              outcome.reasons[i] =
                 [name |-> calls[i].provider, exc |-> calls[i].exc]
        /\ emitted = <<>>

\* two streaming attempts raised, with different exceptions, before any chunk
C31_Witness ==
    /\ mode = "stream"
    /\ pc = "done"
    /\ Len(calls) = 2
    /\ calls[1].result = "raised" /\ calls[2].result = "raised"
    /\ calls[1].exc # calls[2].exc
    /\ emitted = <<>>
    /\ Len(outcome.reasons) = 2

BuiltInProbes ==
    {i \in 1..Len(results) :
        /\ results[i] # Pending
        /\ enabled_providers[i].type \in {"gemini", "ollama"}}

\* C36: a completed probe of a built-in provider has returned a value with a
\* status, whatever happened at the backend; for the Ollama provider a
\* connection error, a timeout and an HTTP error status give Offline and
\* any other failure gives Error.
C36_BuiltInProbesReturnStatus ==
    \A i \in BuiltInProbes :
        /\ results[i].kind = "dict"
        /\ results[i].status \in {"Active", "Offline", "Error"}
        /\ enabled_providers[i].type = "ollama" =>
              /\ results[i].cause \in
                    {"ConnectError", "TimeoutException", "HTTPStatusError"}
                 => results[i].status = "Offline"
              /\ results[i].cause = "RuntimeError"
                 => results[i].status = "Error"

C33_OneAuditCallPerRequest ==
    request.endpoint = "process" =>
        /\ spc = "done" => Len(audit) = 1
        /\ spc # "done" => audit = <<>>
        /\ \A i \in 1..Len(audit) :
              /\ http_status # 0
              /\ audit[i].status \in {"success", "error"}
              /\ audit[i].status = "success" <=> http_status = 200

\* a skill reported success and the request is logged as an error, the
\* response being 500; the other outcomes are reached as well
C33_Witness ==
    /\ request.endpoint = "process"
    /\ spc = "done"
    /\ skill_started
    /\ http_status = 500
    /\ audit = <<[status |-> "error", provider |-> "skill:echo"]>>

\* C34: after NoAvailableProviderError process_task answers 503 with the
\* fixed detail and none of the router's reasons, runs no skill and logs
\* provider "failover_exhausted" with status "error"; after any other
\* exception of the router it answers 500 with the fixed detail.
C34_FailoverExhaustedIs503 ==
    (request.endpoint = "process" /\ spc = "done" /\ mode = "route") =>
        /\ outcome.kind = "NoAvailableProviderError" =>
              /\ http_status = 503
              /\ http_detail =
                    [text |-> "All LLM providers are currently unavailable.",
                     reasons |-> <<>>]
              /\ ~skill_started
              /\ audit = <<[status |-> "error",
                            provider |-> "failover_exhausted"]>>
        /\ outcome.kind \notin {"response", "NoAvailableProviderError"} =>
              /\ http_status = 500
              /\ http_detail =
                    [text |->
                        "An unexpected error occurred during LLM routing.",
                     reasons |-> <<>>]
              /\ ~skill_started

\* a task type that is also a skill was routed, both providers failed and
\* the answer is 503
C34_Witness ==
    /\ request.endpoint = "process"
    /\ request.task_type = "echo"
    /\ spc = "done"
    /\ outcome.kind = "NoAvailableProviderError"
    /\ Len(outcome.reasons) = 2
    /\ http_status = 503

\* the router raised ValueError and the answer is 500
C34_WitnessOther ==
    /\ request.endpoint = "process"
    /\ spc = "done"
    /\ outcome.kind = "ValueError"
    /\ http_status = 500


\* C35: on the WebSocket endpoint a connection whose API key fails the
\* validation is closed with code 4001 before anything else: no payload is
\* read from it, nothing is sent on it and the router is never invoked.
C35_StreamValidatesFirst ==
    (request.endpoint = "stream" /\ ~validate_api_key(request.api_key)) =>
        /\ close_code = 4001
        /\ spc = "done"
        /\ ~connected
        /\ request.task_type = ""
        /\ ws_sent = <<>>
        /\ mode = "none"
        /\ calls = <<>>
        /\ hook_calls = 0

\* a connection with an invalid key has been closed with code 4001
C35_Witness ==
    /\ request.endpoint = "stream"
    /\ request.api_key = "invalid"
    /\ close_code = 4001
    /\ spc = "done"


(* ------------------------- the Paddle webhook -------------------------- *)

\* the server is up with every provider enabled and the default routing
\* table; the signing secret is whatever the environment held at import
InitWebhook ==
    /\ providers_yaml = [i \in 1..Len(EntryNames) |->
                            Entry(EntryNames[i], TRUE, TRUE)]
    /\ routing_yaml = [kind |-> "missing", rules |-> <<>>]
    /\ env = AllEnv
    /\ providers = _load_providers(providers_yaml, env)
    /\ routing_rules = _load_routing_rules(routing_yaml)
    /\ routable_tasks = RoutableTasks(routing_rules)
    /\ identity_complete = TRUE
    /\ boot = "up"
    /\ InitRequest
    /\ PADDLE_WEBHOOK_SIGNING_SECRET \in Secrets

NextWebhook ==
    \/ \E sig \in Signatures, b \in Bodies : post_purchase_completed(sig, b)
    \/ handle_purchase_completed
    \/ \E found \in BOOLEAN : generate_license(found)
    \/ \E found \in BOOLEAN, sent \in BOOLEAN : deliver_license(found, sent)

SpecWebhook == InitWebhook /\ [][NextWebhook]_vars

\* the values the header of the request gives for a key
Sent(key) ==
    {part[2] : part \in {q \in Range(webhook.paddle_signature.parts) :
                            Len(q) >= 2 /\ q[1] = key}}

\* the request has no Paddle-Signature header, or an empty one
HeaderMissing ==
    \/ ~webhook.paddle_signature.present
    \/ webhook.paddle_signature.parts = << <<"">> >>

\* the header is of the form ts=<timestamp>;h1=<hash>, in any order
HeaderWellFormed ==
    /\ \A part \in Range(webhook.paddle_signature.parts) : Len(part) >= 2
    /\ Sent("ts") \ {""} # {}
    /\ Sent("h1") \ {""} # {}

\* the hash of the header is the one the configured secret gives for the
\* timestamp and the body
HashMatches ==
    \E ts \in Sent("ts"), h1 \in Sent("h1") :
        h1 = Hmac(PADDLE_WEBHOOK_SIGNING_SECRET, SignedPayload(ts, webhook.body))

\* no license was generated and no mail sent for the request
NothingIssued == webhook.license = "" /\ ~webhook.email_sent

\* C38: a purchase request is refused with 500 when no signing secret is
\* configured, else with 401 when the signature header is missing, else with
\* 400 when the header is malformed, else with 403 when the hash does not
\* match; in each of these cases no license is generated and no mail sent,
\* so a license exists only for a request that passed all four checks.
C38_LicenseOnlyAfterVerification ==
    webhook.wpc # "idle" =>
        /\ PADDLE_WEBHOOK_SIGNING_SECRET = "" =>
              webhook.status = 500 /\ webhook.wpc = "done" /\ NothingIssued
        /\ (PADDLE_WEBHOOK_SIGNING_SECRET # "" /\ HeaderMissing) =>
              webhook.status = 401 /\ webhook.wpc = "done" /\ NothingIssued
        /\ (PADDLE_WEBHOOK_SIGNING_SECRET # "" /\ ~HeaderMissing
              /\ ~HeaderWellFormed) =>
              webhook.status = 400 /\ webhook.wpc = "done" /\ NothingIssued
        /\ (PADDLE_WEBHOOK_SIGNING_SECRET # "" /\ ~HeaderMissing
              /\ HeaderWellFormed /\ ~HashMatches) =>
              webhook.status = 403 /\ webhook.wpc = "done" /\ NothingIssued
        /\ ~NothingIssued =>
              /\ PADDLE_WEBHOOK_SIGNING_SECRET # ""
              /\ ~HeaderMissing
              /\ HeaderWellFormed
              /\ HashMatches

\* a request signed by Paddle for another body was refused with 403
C38_Witness ==
    /\ webhook.wpc = "done"
    /\ PADDLE_WEBHOOK_SIGNING_SECRET = PaddleSecret
    /\ webhook.paddle_signature = PaddleSignature("1", "pro+email")
    /\ webhook.body = "enterprise"
    /\ webhook.status = 403
    /\ NothingIssued

\* a verified request was answered 202 with a license generated and mailed
C38_WitnessLicensed ==
    /\ webhook.wpc = "done"
    /\ webhook.status = 202
    /\ webhook.license = "license(customer@example.com,PRO)"
    /\ webhook.email_sent

\* no secret and no header: the answer is 500, not 401
C38_WitnessOrder ==
    /\ webhook.wpc = "done"
    /\ PADDLE_WEBHOOK_SIGNING_SECRET = ""
    /\ ~webhook.paddle_signature.present
    /\ webhook.status = 500


(* ------------------------------ termination ---------------------------- *)

\* configurations with the local provider enabled or not and the cloud
\* provider enabled or not
LiveFiles ==
    {f \in ProviderFiles : f[2].enabled /\ f[3].streams}

InitLive ==
    /\ providers_yaml \in LiveFiles
    /\ routing_yaml \in ServerTables
    /\ env = AllEnv
    /\ providers = _load_providers(providers_yaml, env)
    /\ routing_rules = _load_routing_rules(routing_yaml)
    /\ routable_tasks = RoutableTasks(routing_rules)
    /\ identity_complete = TRUE
    /\ boot = "up"
    /\ InitCall

\* a provider call of route_request comes to its end
ProviderCallEnds ==
    \/ \E r \in AllResponses : generate_async_returns(r)
    \/ \E e \in ExcKinds : generate_async_raises(e)

\* a probe of get_provider_statuses comes to its end
ProbeEnds ==
    \E i \in 1..Len(EntryNames), r \in AllProbeResults :
        check_health_completes(i, r)

NextLive ==
    \/ \E t \in TaskTypes : route_request(t) /\ UNCHANGED srvVars
    \/ route_attempt
    \/ ProviderCallEnds
    \/ get_provider_statuses
    \/ ProbeEnds
    \/ gather_returns

\* the event loop runs a coroutine that is ready (route_attempt,
\* gather_returns); every provider call and every probe that was started
\* comes to its end, which is what the callers of the router assume
SpecLive ==
    /\ InitLive
    /\ [][NextLive]_vars
    /\ WF_vars(route_attempt)
    /\ WF_vars(ProviderCallEnds)
    /\ WF_vars(ProbeEnds)
    /\ WF_vars(gather_returns)

\* C39: a route_request call makes at most as many provider calls as it has
\* candidates and, every provider call coming to its end, the call ends: it
\* returns a response or raises NoAvailableProviderError or ValueError;
\* get_provider_statuses returns only when none of the probes it started is
\* pending, and, every probe coming to its end, it does return.
C39_CallsTerminate ==
    /\ [](mode = "route" => Len(calls) <= Len(Wanted))
    /\ (mode = "route" /\ pc # "done")
          ~> (/\ pc = "done"
              /\ outcome.kind \in {"response", "NoAvailableProviderError",
                                   "ValueError"})
    /\ [](statuses.returned =>
             \A i \in 1..Len(results) : results[i] # Pending)
    /\ (hpc = "gather") ~> (hpc = "done" /\ statuses.returned)

\* a call has ended after both of its candidates raised, and a health call
\* has returned after its three probes
C39_Witness ==
    /\ mode = "route"
    /\ pc = "done"
    /\ outcome.kind = "NoAvailableProviderError"
    /\ Len(Wanted) = 2
    /\ Len(calls) = 2
    /\ hpc = "done"
    /\ statuses.returned
    /\ Len(results) = 3


====
